---- MODULE Spec2Model ----
(***************************************************************************)
(* Certificate-trust decision engine of Clash.Meta.                        *)
(*                                                                         *)
(*   package ca  (src/unnamed/part_001): trustCerts, globalCertPool, the   *)
(*       RWMutex, AddCertificate, AddCertificateKeyPair, ResetCertificate, *)
(*       getCertPool, GetTLSConfig, verifyFingerprint, convertFingerprint. *)
(*   package tls (src/unnamed/part_000): globalFingerprints, its Mutex,    *)
(*       AddCertFingerprint, GetSpecifiedFingerprintTLSConfig,             *)
(*       GetGlobalFingerprintTLSConfig and the callback                    *)
(*       verifyPeerCertificateAndFingerprints.                             *)
(*                                                                         *)
(* Goroutines are the members of Threads; every statement that reads or    *)
(* writes a package-level variable is a step of its own, so that the       *)
(* unlocked accesses of the source interleave as the Go scheduler allows.  *)
(***************************************************************************)
EXTENDS Integers, Sequences, FiniteSets, TLC

\* ------------------------------------------------------------------ bounds
\* operations one goroutine may start, under concurrent calls
MaxOps == 2
\* operations the one goroutine of a sequential run may start
MaxSeqOps == 3
\* ResetCertificate calls the whole run may start
MaxResets == 1
\* calls of the caller that builds configs
MaxConfigOps == 1

Threads == {"g1", "g2"}

\* ------------------------------------------------------- program constants
\* len(fpByte) != 32
FingerprintLen == 32
\* the zero value of globalCertPool (*x509.CertPool): no pool
NilPool == 0

NoThread == "none"
NilCert == "nil_cert"

\* ------------------------------------------------------------ certificates
\* Trust anchors.  x509.SystemCertPool() holds OSRoots, the embedded
\* ca-certificates.crt holds EmbeddedRoots, CustomCerts are what callers add.
OSRoots == {"os_root"}
EmbeddedRoots == {"embed_root"}
CustomCerts == {"ca1", "ca2"}

\* Raw (DER) certificates a peer can present.  "junk" is not parseable.
RawCerts == {"leaf_os", "leaf_ca1", "leaf_ca2", "leaf_x", "inter_x", "junk"}

\* x509.ParseCertificate(rawCert): err == nil
Parses(raw) == raw # "junk"

\* The trust anchor a certificate chains to ("none": to no anchor at all).
Issuer(raw) ==
  CASE raw = "leaf_os" -> "os_root"
    [] raw = "leaf_ca1" -> "ca1"
    [] raw = "leaf_ca2" -> "ca2"
    [] OTHER -> "none"

\* cert.Verify against the roots of `pool` (a set of trust anchors)
ChainValidates(raw, pool) == Parses(raw) /\ Issuer(raw) \in pool

\* --------------------------------------------------------- certificate text
\* Inputs of AddCertificate: the empty string, text holding no PEM block, a
\* PEM block whose bytes are no X.509 certificate, and the PEM of ca1 / ca2.
CertTexts == {"", "garbage", "pem:bad_der", "pem:ca1", "pem:ca2"}

\* pem.Decode([]byte(certificate)): the block's bytes, "nil" for no block
PemDecode(text) ==
  CASE text = "pem:ca1" -> "der:ca1"
    [] text = "pem:ca2" -> "der:ca2"
    [] text = "pem:bad_der" -> "der:bad"
    [] OTHER -> "nil"

\* x509.ParseCertificate(der): the certificate, NilCert with err != nil
ParseCertificate(der) ==
  CASE der = "der:ca1" -> "ca1"
    [] der = "der:ca2" -> "ca2"
    [] OTHER -> NilCert

\* certPool.AppendCertsFromPEM(certificate): the certificates of every PEM
\* block that parses (the empty set makes it return false)
AppendCertsFromPEM(text) ==
  LET c == ParseCertificate(PemDecode(text))
  IN IF c = NilCert THEN {} ELSE {c}

\* CN.ParseCert(certificate, privateKey, C.Path): certKeyPair.Certificate,
\* the DER blocks of the bundle.  A pair that fails to parse leaves the zero
\* tls.Certificate (no blocks); X509KeyPair parses only the first block, so
\* a later block may hold bytes that are no certificate.
KeyPairBundles ==
  { <<>>, <<"der:ca1">>, <<"der:ca2", "der:bad">>, <<"der:ca1", "der:ca2">> }

Range(s) == { s[i] : i \in 1..Len(s) }

\* ------------------------------------------------------------- fingerprints
\* A fingerprint is a [32]byte, a sequence of FingerprintLen values 0..255.
\* sha256.Sum256(cert.Raw) is a fixed digest per certificate, distinct
\* certificates having distinct digests.
CertSeed(raw) ==
  CASE raw = "leaf_os" -> 1
    [] raw = "leaf_ca1" -> 2
    [] raw = "leaf_ca2" -> 3
    [] raw = "leaf_x" -> 4
    [] raw = "inter_x" -> 5
    [] OTHER -> 6

Sha256Table ==
  [raw \in RawCerts |->
     [i \in 1..FingerprintLen |-> (CertSeed(raw) * 37 + i * 11) % 256]]

Sha256(raw) == Sha256Table[raw]

HexLower == <<"0","1","2","3","4","5","6","7","8","9","a","b","c","d","e","f">>
HexUpper == <<"0","1","2","3","4","5","6","7","8","9","A","B","C","D","E","F">>

\* encoding/hex reverseHexTable: the value of a hex digit of either case,
\* -1 for any other character
HexVal(ch) ==
  IF \E i \in 1..16 : HexLower[i] = ch
  THEN (CHOOSE i \in 1..16 : HexLower[i] = ch) - 1
  ELSE IF \E i \in 1..16 : HexUpper[i] = ch
  THEN (CHOOSE i \in 1..16 : HexUpper[i] = ch) - 1
  ELSE -1

\* hex.DecodeString(s): err for a character that is no hex digit or an odd
\* length, else one byte per pair of digits
HexDecodeString(s) ==
  IF (\E i \in 1..Len(s) : HexVal(s[i]) < 0) \/ Len(s) % 2 = 1
  THEN [err |-> TRUE, bytes |-> <<>>]
  ELSE [err |-> FALSE,
        bytes |-> [i \in 1..(Len(s) \div 2) |->
                     HexVal(s[2 * i - 1]) * 16 + HexVal(s[2 * i])]]

NotColon(ch) == ch # ":"

\* strings.Replace(s, ":", "", -1)
RemoveColons(s) == SelectSeq(s, NotColon)

\* unicode.IsSpace, which strings.TrimSpace trims by: '\t', '\n', '\v', '\f',
\* '\r', ' ', U+0085, U+00A0 and the characters of category Z.  A character
\* TLA+ has no escape for is written by its code point.
IsSpace(ch) ==
  ch \in {" ", "\t", "\n", "\r", "\f", "U+000B", "U+0085", "U+00A0", "U+1680",
          "U+2000", "U+2001", "U+2002", "U+2003", "U+2004", "U+2005", "U+2006",
          "U+2007", "U+2008", "U+2009", "U+200A", "U+2028", "U+2029", "U+202F",
          "U+205F", "U+3000"}

\* strings.TrimSpace(s): s without its leading and trailing white space
TrimSpace(s) ==
  LET keep == { i \in 1..Len(s) : ~IsSpace(s[i]) }
  IN IF keep = {} THEN <<>>
     ELSE LET lo == CHOOSE i \in keep : \A j \in keep : i <= j
              hi == CHOOSE i \in keep : \A j \in keep : i >= j
          IN SubSeq(s, lo, hi)

\* package tls convertFingerprint (part_000): hex-decodes the text as given
tlsConvertFingerprint(fingerprint) ==
  LET d == HexDecodeString(fingerprint)
  IN IF d.err \/ Len(d.bytes) # FingerprintLen
     THEN [err |-> TRUE, fp |-> <<>>]
     ELSE [err |-> FALSE, fp |-> d.bytes]

\* package ca convertFingerprint (part_001): removes every ":" and trims
\* surrounding white space before decoding
caConvertFingerprint(fingerprint) ==
  LET d == HexDecodeString(TrimSpace(RemoveColons(fingerprint)))
  IN IF d.err \/ Len(d.bytes) # FingerprintLen
     THEN [err |-> TRUE, fp |-> <<>>]
     ELSE [err |-> FALSE, fp |-> d.bytes]

\* hex text of a byte sequence, lower case
HexEncode(bytes) ==
  [i \in 1..(2 * Len(bytes)) |->
     IF i % 2 = 1 THEN HexLower[(bytes[(i + 1) \div 2] \div 16) + 1]
     ELSE HexLower[(bytes[i \div 2] % 16) + 1]]

ToUpper(s) ==
  [i \in 1..Len(s) |-> IF HexVal(s[i]) >= 0 THEN HexUpper[HexVal(s[i]) + 1] ELSE s[i]]

\* "ab:cd:..." of the hex text "abcd..."
WithColons(s) ==
  [i \in 1..((3 * Len(s)) \div 2 - 1) |-> IF i % 3 = 0 THEN ":" ELSE s[i - (i \div 3)]]

\* The fingerprint texts callers pass, by name: the digest of leaf_x in lower
\* case, in upper case, colon-separated, and with surrounding blanks; the
\* digest of inter_x; a digest cut to 31 bytes; text with a non-hex digit;
\* a digest cut to 63 digits; a digest with a blank in the middle; the
\* digest between a form feed and a no-break space.
FpNames ==
  {"", "x_lower", "x_upper", "x_colon", "x_blank", "inter_lower", "short", "nonhex",
   "odd", "inner_blank", "x_formfeed"}

FpTextTable ==
  [name \in FpNames |->
     CASE name = "x_lower" -> HexEncode(Sha256("leaf_x"))
       [] name = "x_upper" -> ToUpper(HexEncode(Sha256("leaf_x")))
       [] name = "x_colon" -> WithColons(HexEncode(Sha256("leaf_x")))
       [] name = "x_blank" -> <<" ">> \o HexEncode(Sha256("leaf_x")) \o <<"\n">>
       [] name = "x_formfeed" ->
            <<"\f">> \o HexEncode(Sha256("leaf_x")) \o <<"U+00A0">>
       [] name = "inter_lower" -> HexEncode(Sha256("inter_x"))
       [] name = "short" -> HexEncode(SubSeq(Sha256("leaf_x"), 1, FingerprintLen - 1))
       [] name = "nonhex" -> <<"z">> \o Tail(HexEncode(Sha256("leaf_x")))
       [] name = "odd" -> Tail(HexEncode(Sha256("leaf_x")))
       [] name = "inner_blank" ->
            SubSeq(HexEncode(Sha256("leaf_x")), 1, FingerprintLen) \o <<" ">>
              \o SubSeq(HexEncode(Sha256("leaf_x")), FingerprintLen + 1,
                        2 * FingerprintLen)
       [] OTHER -> <<>>]

FpText(name) == FpTextTable[name]

\* the two conversions of each of these texts
tlsConverted == [name \in FpNames |-> tlsConvertFingerprint(FpText(name))]
caConverted == [name \in FpNames |-> caConvertFingerprint(FpText(name))]

\* ------------------------------------------------------------------- state
VARIABLES
  trustCerts,          \* package ca: var trustCerts []*x509.Certificate
  globalCertPool,      \* package ca: var globalCertPool *x509.CertPool (a handle)
  pools,               \* the heap of x509.CertPool objects: handle -> certificates
  mutex,               \* package ca: var mutex sync.RWMutex (its write lock's holder)
  DisableEmbedCa,      \* package ca: DISABLE_EMBED_CA
  DisableSystemCa,     \* package ca: DISABLE_SYSTEM_CA
  globalFingerprints,  \* package tls: the slice header of globalFingerprints
  arrays,              \* the heap of backing arrays of [][32]byte slices
  tlsMutex,            \* package tls: var mutex sync.Mutex (its holder)
  status,              \* the process: "running", "panicked", "exited"
  pc,                  \* each goroutine's position
  loc,                 \* each goroutine's local variables
  ret,                 \* what each goroutine's last call returned
  opsLeft,             \* calls each goroutine may still start
  resets,              \* ResetCertificate calls started
  configs,             \* the *tls.Config values callers were handed and hold
  recording            \* whether the callers' view (ret, configs) is recorded

caVars == <<trustCerts, globalCertPool, pools, mutex, DisableEmbedCa, DisableSystemCa>>
tlsVars == <<globalFingerprints, arrays, tlsMutex>>
vars == <<trustCerts, globalCertPool, pools, mutex, DisableEmbedCa, DisableSystemCa,
          globalFingerprints, arrays, tlsMutex, status, pc, loc, ret, opsLeft,
          resets, configs, recording>>

\* ----------------------------------------------------------------- configs
\* tls.Config.RootCAs: nil, a handle of the global pool, or a pool built from
\* the caller's custom CA
NoRoots == [kind |-> "nil", id |-> NilPool, certs |-> {}]
GlobalRoots(p) == [kind |-> "global", id |-> p, certs |-> {}]
CustomRoots(cs) == [kind |-> "custom", id |-> NilPool, certs |-> cs]

\* tls.Config.VerifyPeerCertificate: nil, the closure of verifyFingerprint
\* (part_001) or the closure of verifyPeerCertificateAndFingerprints
\* (part_000).  `global` tells whether the closure holds &globalFingerprints
\* or a slice of its own (`pins`).
NoCallback ==
  [kind |-> "nil", global |-> FALSE, pins |-> <<>>, insecureSkipVerify |-> FALSE]

\* (*tls.Config)(nil)
NilConfig ==
  [nil |-> TRUE, RootCAs |-> NoRoots, InsecureSkipVerify |-> FALSE,
   VerifyPeerCertificate |-> NoCallback]

\* &tls.Config{InsecureSkipVerify: skip}
NewConfig(skip) ==
  [nil |-> FALSE, RootCAs |-> NoRoots, InsecureSkipVerify |-> skip,
   VerifyPeerCertificate |-> NoCallback]

\* the tlsConfig arguments callers pass
ConfigInputs == {NilConfig, NewConfig(FALSE), NewConfig(TRUE)}

\* -------------------------------------------------------------- goroutines
EmptyLoc ==
  [op |-> "", text |-> "", fp |-> "", bundle |-> <<>>, idx |-> 0, tmp |-> <<>>,
   cert |-> "", site |-> "", got |-> NilPool, cfg |-> NilConfig,
   input |-> NilConfig, chain |-> <<>>, ptr |-> 0, view |-> <<>>,
   preErr |-> "nil", bytes |-> <<>>, customCA |-> "", customCAString |-> ""]

NoReturn ==
  [op |-> "", arg |-> "", err |-> "", cfg |-> NilConfig, obj |-> NilConfig,
   input |-> NilConfig, chain |-> <<>>, customCA |-> "", customCAString |-> ""]

Running == status = "running"

\* goroutine t, in a live process, stands at `label`; no step of the program
\* changes whether the callers' view is recorded
At(t, label) == Running /\ pc[t] = label /\ UNCHANGED recording

\* the call of goroutine t returns: r is what its caller sees
Returns(t, r) ==
  /\ pc' = [pc EXCEPT ![t] = "idle"]
  /\ loc' = [loc EXCEPT ![t] = EmptyLoc]
  /\ ret' = IF recording THEN [ret EXCEPT ![t] = r] ELSE ret

\* op(arg) returns err ("nil" for a nil error)
Return(t, op, arg, err) ==
  Returns(t, [NoReturn EXCEPT !.op = op, !.arg = arg, !.err = err])

\* op(input, arg) returns (cfg, err); obj is the caller's tls.Config object
\* as the call leaves it
ReturnConfig(t, op, arg, err, cfg, obj, input) ==
  Returns(t, [NoReturn EXCEPT !.op = op, !.arg = arg, !.err = err, !.cfg = cfg,
                              !.obj = obj, !.input = input])

\* GetTLSConfig(input, fingerprint, customCA, customCAString) returns
\* (cfg, err), the caller's tls.Config object left as obj
ReturnTLSConfig(t, args, err, cfg, obj) ==
  Returns(t, [NoReturn EXCEPT !.op = "GetTLSConfig", !.arg = args.fp, !.err = err,
                              !.cfg = cfg, !.obj = obj, !.input = args.input,
                              !.customCA = args.customCA,
                              !.customCAString = args.customCAString])

\* the callback of cfg, or the handshake on cfg, given the peer's chain,
\* returns err ("nil": the peer is accepted)
ReturnVerdict(t, op, cfg, chain, err) ==
  Returns(t, [NoReturn EXCEPT !.op = op, !.err = err, !.cfg = cfg, !.obj = cfg,
                              !.chain = chain])

\* an unrecovered panic in goroutine t: the process dies
Panic(t) ==
  /\ status' = "panicked"
  /\ pc' = [pc EXCEPT ![t] = "panicked"]
  /\ UNCHANGED <<loc, ret>>

\* the caller keeps the config it was handed
Held(cfg) == IF recording THEN configs \cup {cfg} ELSE configs

\* goroutine t may start another call
CanCall(t) == At(t, "idle") /\ opsLeft[t] > 0

Called(t) == opsLeft' = [opsLeft EXCEPT ![t] = @ - 1]

\* mutex.Unlock() by its holder (a deferred unlock runs on panic too)
Released(t) == IF mutex = t THEN NoThread ELSE mutex

\* ----------------------------------------------- package ca: AddCertificate
\* lines 50-52: mutex.Lock(); defer mutex.Unlock()
AddCertificate_Lock(t, certificate) ==
  /\ CanCall(t) /\ Called(t)
  /\ mutex = NoThread
  /\ mutex' = t
  /\ pc' = [pc EXCEPT ![t] = "ac_parse"]
  /\ loc' = [loc EXCEPT ![t] = [EmptyLoc EXCEPT !.op = "AddCertificate",
                                                !.text = certificate]]
  /\ UNCHANGED <<trustCerts, globalCertPool, pools, DisableEmbedCa, DisableSystemCa,
                 tlsVars, status, ret, resets, configs>>

\* AddCertificate_Parse had lines 53-55 (the empty check) been left out:
\* the empty text goes on to pem.Decode.  Not part of Next.
AddCertificate_Parse_NoEmptyCheck(t) ==
  /\ At(t, "ac_parse")
  /\ LET text == loc[t].text
         block == PemDecode(text)
         cert == ParseCertificate(block)
     IN IF block = "nil"
        THEN /\ status' = "exited"
             /\ pc' = [pc EXCEPT ![t] = "exited"]
             /\ UNCHANGED <<mutex, loc, ret>>
        ELSE IF cert = NilCert
        THEN /\ Return(t, "AddCertificate", text, "add certificate failed")
             /\ mutex' = Released(t)
             /\ UNCHANGED status
        ELSE /\ pc' = [pc EXCEPT ![t] = "ac_write"]
             /\ loc' = [loc EXCEPT ![t].cert = cert, ![t].tmp = trustCerts]
             /\ UNCHANGED <<mutex, status, ret>>
  /\ UNCHANGED <<trustCerts, globalCertPool, pools, DisableEmbedCa, DisableSystemCa,
                 tlsVars, opsLeft, resets, configs>>

\* lines 53-64: the empty check, pem.Decode, x509.ParseCertificate and the
\* read of trustCerts that append(trustCerts, cert) starts with.  log.Fatalln
\* ends the process.
AddCertificate_Parse(t) ==
  /\ At(t, "ac_parse")
  /\ LET text == loc[t].text
         block == PemDecode(text)
         cert == ParseCertificate(block)
     IN IF text = ""
        THEN /\ Return(t, "AddCertificate", text, "certificate is empty")
             /\ mutex' = Released(t)
             /\ UNCHANGED status
        ELSE IF block = "nil"
        THEN /\ status' = "exited"
             /\ pc' = [pc EXCEPT ![t] = "exited"]
             /\ UNCHANGED <<mutex, loc, ret>>
        ELSE IF cert = NilCert
        THEN /\ Return(t, "AddCertificate", text, "add certificate failed")
             /\ mutex' = Released(t)
             /\ UNCHANGED status
        ELSE /\ pc' = [pc EXCEPT ![t] = "ac_write"]
             /\ loc' = [loc EXCEPT ![t].cert = cert, ![t].tmp = trustCerts]
             /\ UNCHANGED <<mutex, status, ret>>
  /\ UNCHANGED <<trustCerts, globalCertPool, pools, DisableEmbedCa, DisableSystemCa,
                 tlsVars, opsLeft, resets, configs>>

\* line 64: trustCerts = append(<what was read>, cert).  The mutex does not
\* keep AddCertificateKeyPair, which takes no lock, from writing in between.
AddCertificate_Append(t) ==
  /\ At(t, "ac_write")
  /\ trustCerts' = Append(loc[t].tmp, loc[t].cert)
  /\ pc' = [pc EXCEPT ![t] = "ac_pool"]
  /\ loc' = [loc EXCEPT ![t].tmp = <<>>]
  /\ UNCHANGED <<globalCertPool, pools, mutex, DisableEmbedCa, DisableSystemCa,
                 tlsVars, status, ret, opsLeft, resets, configs>>

\* lines 65-66: globalCertPool.AddCert(cert); return nil.  AddCert on a nil
\* *x509.CertPool dereferences nil and panics.
AddCertificate_AddCert(t) ==
  /\ At(t, "ac_pool")
  /\ IF globalCertPool = NilPool
     THEN /\ Panic(t)
          /\ UNCHANGED pools
     ELSE /\ pools' = [pools EXCEPT ![globalCertPool] = @ \cup {loc[t].cert}]
          /\ Return(t, "AddCertificate", loc[t].text, "nil")
          /\ UNCHANGED status
  /\ mutex' = Released(t)
  /\ UNCHANGED <<trustCerts, globalCertPool, DisableEmbedCa, DisableSystemCa, tlsVars,
                 opsLeft, resets, configs>>

\* ---------------------------------------- package ca: AddCertificateKeyPair
\* x509.ParseCertificate(certPEM) of the bundle's entry i: nil on error (the
\* error is only warned about, the nil certificate is used)
BundleCert(bundle, i) == ParseCertificate(bundle[i])

\* lines 34-46: CN.ParseCert, and for the first entry the read of trustCerts
\* that append(trustCerts, ...) starts with.  No lock is taken.
AddCertificateKeyPair_Call(t, bundle) ==
  /\ CanCall(t) /\ Called(t)
  /\ IF bundle = <<>>
     THEN Return(t, "AddCertificateKeyPair", "", "nil")
     ELSE /\ pc' = [pc EXCEPT ![t] = "kp_write"]
          /\ loc' = [loc EXCEPT ![t] = [EmptyLoc EXCEPT !.op = "AddCertificateKeyPair",
                                          !.bundle = bundle, !.idx = 1,
                                          !.cert = BundleCert(bundle, 1),
                                          !.tmp = trustCerts]]
          /\ UNCHANGED ret
  /\ UNCHANGED <<caVars, tlsVars, status, resets, configs>>

\* line 46, for a later entry: the read of trustCerts
AddCertificateKeyPair_Read(t) ==
  /\ At(t, "kp_read")
  /\ pc' = [pc EXCEPT ![t] = "kp_write"]
  /\ loc' = [loc EXCEPT ![t].tmp = trustCerts,
                        ![t].cert = BundleCert(loc[t].bundle, loc[t].idx)]
  /\ UNCHANGED <<caVars, tlsVars, status, ret, opsLeft, resets, configs>>

\* line 46: trustCerts = append(<what was read>, customCertificate)
AddCertificateKeyPair_Append(t) ==
  /\ At(t, "kp_write")
  /\ trustCerts' = Append(loc[t].tmp, loc[t].cert)
  /\ pc' = [pc EXCEPT ![t] = "kp_pool"]
  /\ UNCHANGED <<globalCertPool, pools, mutex, DisableEmbedCa, DisableSystemCa,
                 tlsVars, status, loc, ret, opsLeft, resets, configs>>

\* line 47: globalCertPool.AddCert(customCertificate): panics on a nil pool
\* and on a nil certificate; then the next entry, or the return.
AddCertificateKeyPair_AddCert(t) ==
  /\ At(t, "kp_pool")
  /\ IF globalCertPool = NilPool \/ loc[t].cert = NilCert
     THEN /\ Panic(t)
          /\ UNCHANGED pools
     ELSE /\ pools' = [pools EXCEPT ![globalCertPool] = @ \cup {loc[t].cert}]
          /\ UNCHANGED status
          /\ IF loc[t].idx < Len(loc[t].bundle)
             THEN /\ pc' = [pc EXCEPT ![t] = "kp_read"]
                  /\ loc' = [loc EXCEPT ![t].idx = @ + 1]
                  /\ UNCHANGED ret
             ELSE Return(t, "AddCertificateKeyPair", "", "nil")
  /\ UNCHANGED <<trustCerts, globalCertPool, mutex, DisableEmbedCa, DisableSystemCa,
                 tlsVars, opsLeft, resets, configs>>

\* --------------------------------------------- package ca: ResetCertificate
\* lines 90-92: mutex.Lock(); defer mutex.Unlock()
ResetCertificate_Lock(t) ==
  /\ CanCall(t) /\ Called(t)
  /\ resets < MaxResets
  /\ resets' = resets + 1
  /\ mutex = NoThread
  /\ mutex' = t
  /\ pc' = [pc EXCEPT ![t] = "rs_clear"]
  /\ loc' = [loc EXCEPT ![t] = [EmptyLoc EXCEPT !.op = "ResetCertificate"]]
  /\ UNCHANGED <<trustCerts, globalCertPool, pools, DisableEmbedCa, DisableSystemCa,
                 tlsVars, status, ret, configs>>

\* line 93: trustCerts = nil
ResetCertificate_Clear(t) ==
  /\ At(t, "rs_clear")
  /\ trustCerts' = <<>>
  /\ pc' = [pc EXCEPT ![t] = "init_sys"]
  /\ UNCHANGED <<globalCertPool, pools, mutex, DisableEmbedCa, DisableSystemCa,
                 tlsVars, status, loc, ret, opsLeft, resets, configs>>

\* ------------------------------------------- package ca: initializeCertPool
\* lines 74-78: globalCertPool = x509.NewCertPool(), or the result of
\* x509.SystemCertPool(): a new pool holding the OS roots, or (nil, err)
initializeCertPool_Base(t) ==
  /\ At(t, "init_sys")
  /\ IF DisableSystemCa
     THEN /\ pools' = Append(pools, {})
          /\ globalCertPool' = Len(pools) + 1
          /\ pc' = [pc EXCEPT ![t] = "init_custom"]
     ELSE \E ok \in BOOLEAN :
            IF ok
            THEN /\ pools' = Append(pools, OSRoots)
                 /\ globalCertPool' = Len(pools) + 1
                 /\ pc' = [pc EXCEPT ![t] = "init_custom"]
            ELSE /\ globalCertPool' = NilPool
                 /\ pc' = [pc EXCEPT ![t] = "init_sysfail"]
                 /\ UNCHANGED pools
  /\ UNCHANGED <<trustCerts, mutex, DisableEmbedCa, DisableSystemCa, tlsVars, status,
                 loc, ret, opsLeft, resets, configs>>

\* lines 78-80: err != nil: globalCertPool = x509.NewCertPool()
initializeCertPool_Fallback(t) ==
  /\ At(t, "init_sysfail")
  /\ pools' = Append(pools, {})
  /\ globalCertPool' = Len(pools) + 1
  /\ pc' = [pc EXCEPT ![t] = "init_custom"]
  /\ UNCHANGED <<trustCerts, mutex, DisableEmbedCa, DisableSystemCa, tlsVars, status,
                 loc, ret, opsLeft, resets, configs>>

\* line 82: for _, cert := range trustCerts evaluates trustCerts once; the
\* loop runs over that slice
initializeCertPool_Custom(t) ==
  /\ At(t, "init_custom")
  /\ IF trustCerts = <<>>
     THEN /\ pc' = [pc EXCEPT ![t] = "init_embed"]
          /\ UNCHANGED loc
     ELSE /\ pc' = [pc EXCEPT ![t] = "init_add"]
          /\ loc' = [loc EXCEPT ![t].tmp = trustCerts, ![t].idx = 1]
  /\ UNCHANGED <<caVars, tlsVars, status, ret, opsLeft, resets, configs>>

\* line 83, one iteration: globalCertPool.AddCert(cert) on the pool the package
\* variable already points to.  AddCert panics on a nil certificate (the
\* caller's deferred unlock runs).
initializeCertPool_AddCert(t) ==
  /\ At(t, "init_add")
  /\ LET cert == loc[t].tmp[loc[t].idx]
     IN IF cert = NilCert
        THEN /\ Panic(t)
             /\ mutex' = Released(t)
             /\ UNCHANGED pools
        ELSE /\ pools' = [pools EXCEPT ![globalCertPool] = @ \cup {cert}]
             /\ IF loc[t].idx < Len(loc[t].tmp)
                THEN /\ loc' = [loc EXCEPT ![t].idx = @ + 1]
                     /\ UNCHANGED pc
                ELSE /\ loc' = [loc EXCEPT ![t].tmp = <<>>, ![t].idx = 0]
                     /\ pc' = [pc EXCEPT ![t] = "init_embed"]
             /\ UNCHANGED <<mutex, status, ret>>
  /\ UNCHANGED <<trustCerts, globalCertPool, DisableEmbedCa, DisableSystemCa, tlsVars,
                 opsLeft, resets, configs>>

\* lines 85-88: the embedded roots unless disabled; then back in the caller:
\* ResetCertificate returns (line 95), getCertPool goes on to line 106
initializeCertPool_Embed(t) ==
  /\ At(t, "init_embed")
  /\ pools' = [pools EXCEPT ![globalCertPool] =
                 IF DisableEmbedCa THEN @ ELSE @ \cup EmbeddedRoots]
  /\ IF loc[t].op = "ResetCertificate"
     THEN /\ Return(t, "ResetCertificate", "", "nil")
          /\ mutex' = Released(t)
     ELSE /\ pc' = [pc EXCEPT ![t] = "gp_ret"]
          /\ UNCHANGED <<mutex, loc, ret>>
  /\ UNCHANGED <<trustCerts, globalCertPool, DisableEmbedCa, DisableSystemCa, tlsVars,
                 status, opsLeft, resets, configs>>

\* ------------------------------------------------- package ca: GetTLSConfig
\* The customCA paths callers pass and os.ReadFile(C.Path.Resolve(customCA))
CAFiles == {"", "missing.pem", "empty.pem", "ca1.pem"}

ReadFile(path) ==
  CASE path = "ca1.pem" -> [err |-> FALSE, data |-> "pem:ca1"]
    [] path = "empty.pem" -> [err |-> FALSE, data |-> ""]
    [] OTHER -> [err |-> TRUE, data |-> ""]

\* the customCAString values callers pass
CAStrings == {"", "garbage", "pem:ca2"}

\* verifyFingerprint(fingerprintBytes), lines 109-124
VerifyFingerprintCallback(fp) ==
  [kind |-> "verifyFingerprint", global |-> FALSE, pins |-> <<fp>>,
   insecureSkipVerify |-> FALSE]

\* GetTLSConfig_Call had the error of os.ReadFile (lines 148-150) been
\* dropped: the call goes on with the CA string, or the global pool.  Not
\* part of Next.
GetTLSConfig_Call_IgnoresReadError(t, tlsConfig, fingerprint, customCA, customCAString) ==
  /\ CanCall(t) /\ Called(t)
  /\ LET cfg == IF tlsConfig.nil THEN NewConfig(FALSE) ELSE tlsConfig
         file == ReadFile(customCA)
         certificate == IF customCA # "" /\ ~file.err THEN file.data ELSE customCAString
         certs == AppendCertsFromPEM(certificate)
         own == [cfg EXCEPT !.RootCAs = CustomRoots(certs)]
         running == [EmptyLoc EXCEPT !.op = "GetTLSConfig", !.fp = fingerprint,
                                     !.input = tlsConfig, !.customCA = customCA,
                                     !.customCAString = customCAString]
     IN IF certificate # "" /\ certs = {}
        THEN /\ ReturnTLSConfig(t, running, "failed to parse certificate", NilConfig, cfg)
             /\ UNCHANGED configs
        ELSE IF certificate = ""
        THEN /\ pc' = [pc EXCEPT ![t] = "gp_check"]
             /\ loc' = [loc EXCEPT ![t] = [running EXCEPT !.cfg = cfg, !.site = "root"]]
             /\ UNCHANGED <<ret, configs>>
        ELSE IF fingerprint = ""
        THEN /\ ReturnTLSConfig(t, running, "nil", own, own)
             /\ configs' = Held(own)
        ELSE IF caConverted[fingerprint].err
        THEN /\ ReturnTLSConfig(t, running, "fingerprint error", NilConfig, own)
             /\ UNCHANGED configs
        ELSE /\ pc' = [pc EXCEPT ![t] = "gp_check"]
             /\ loc' = [loc EXCEPT ![t] = [running EXCEPT !.cfg = own, !.site = "fp"]]
             /\ UNCHANGED <<ret, configs>>
  /\ UNCHANGED <<caVars, tlsVars, status, resets>>


\* lines 140-162 up to the call of getCertPool: the nil check, the custom CA
\* from the file or else from the string, and with a custom CA the private
\* pool; then lines 163-169 up to GetGlobalTLSConfig's call of getCertPool.
GetTLSConfig_Call(t, tlsConfig, fingerprint, customCA, customCAString) ==
  /\ CanCall(t) /\ Called(t)
  /\ LET cfg == IF tlsConfig.nil THEN NewConfig(FALSE) ELSE tlsConfig
         file == ReadFile(customCA)
         certificate == IF customCA # "" THEN file.data ELSE customCAString
         certs == AppendCertsFromPEM(certificate)
         own == [cfg EXCEPT !.RootCAs = CustomRoots(certs)]
         running == [EmptyLoc EXCEPT !.op = "GetTLSConfig", !.fp = fingerprint,
                                     !.input = tlsConfig, !.customCA = customCA,
                                     !.customCAString = customCAString]
     IN IF customCA # "" /\ file.err
        THEN /\ ReturnTLSConfig(t, running, "load ca error", NilConfig, cfg)
             /\ UNCHANGED configs
        ELSE IF certificate # "" /\ certs = {}
        THEN /\ ReturnTLSConfig(t, running, "failed to parse certificate", NilConfig, cfg)
             /\ UNCHANGED configs
        ELSE IF certificate = ""
        THEN /\ pc' = [pc EXCEPT ![t] = "gp_check"]
             /\ loc' = [loc EXCEPT ![t] = [running EXCEPT !.cfg = cfg, !.site = "root"]]
             /\ UNCHANGED <<ret, configs>>
        ELSE IF fingerprint = ""
        THEN /\ ReturnTLSConfig(t, running, "nil", own, own)
             /\ configs' = Held(own)
        ELSE IF caConverted[fingerprint].err
        THEN /\ ReturnTLSConfig(t, running, "fingerprint error", NilConfig, own)
             /\ UNCHANGED configs
        ELSE /\ pc' = [pc EXCEPT ![t] = "gp_check"]
             /\ loc' = [loc EXCEPT ![t] = [running EXCEPT !.cfg = own, !.site = "fp"]]
             /\ UNCHANGED <<ret, configs>>
  /\ UNCHANGED <<caVars, tlsVars, status, resets>>

\* line 98: if globalCertPool == nil (read without the lock)
getCertPool_Check(t) ==
  /\ At(t, "gp_check")
  /\ pc' = [pc EXCEPT ![t] = IF globalCertPool = NilPool THEN "gp_lock" ELSE "gp_ret"]
  /\ UNCHANGED <<caVars, tlsVars, status, loc, ret, opsLeft, resets, configs>>

\* lines 99-100: mutex.Lock(); defer mutex.Unlock()
getCertPool_Lock(t) ==
  /\ At(t, "gp_lock")
  /\ mutex = NoThread
  /\ mutex' = t
  /\ pc' = [pc EXCEPT ![t] = "gp_recheck"]
  /\ UNCHANGED <<trustCerts, globalCertPool, pools, DisableEmbedCa, DisableSystemCa,
                 tlsVars, status, loc, ret, opsLeft, resets, configs>>

\* getCertPool_Recheck had lines 101-103 (the second check, under the lock)
\* been left out: whoever gets the lock builds the pool.  Not part of Next.
getCertPool_Recheck_NoSecondCheck(t) ==
  /\ At(t, "gp_recheck")
  /\ pc' = [pc EXCEPT ![t] = "init_sys"]
  /\ UNCHANGED <<trustCerts, globalCertPool, pools, mutex, DisableEmbedCa,
                 DisableSystemCa, tlsVars, status, loc, ret, opsLeft, resets, configs>>

\* lines 101-104: the second check under the lock: return globalCertPool, or
\* initializeCertPool()
getCertPool_Recheck(t) ==
  /\ At(t, "gp_recheck")
  /\ IF globalCertPool # NilPool
     THEN /\ pc' = [pc EXCEPT ![t] = "gt_pool"]
          /\ loc' = [loc EXCEPT ![t].got = globalCertPool]
          /\ mutex' = Released(t)
     ELSE /\ pc' = [pc EXCEPT ![t] = "init_sys"]
          /\ UNCHANGED <<loc, mutex>>
  /\ UNCHANGED <<trustCerts, globalCertPool, pools, DisableEmbedCa, DisableSystemCa,
                 tlsVars, status, ret, opsLeft, resets, configs>>

\* line 106: return globalCertPool (and the deferred unlock of the slow path)
getCertPool_Return(t) ==
  /\ At(t, "gp_ret")
  /\ pc' = [pc EXCEPT ![t] = "gt_pool"]
  /\ loc' = [loc EXCEPT ![t].got = globalCertPool]
  /\ mutex' = Released(t)
  /\ UNCHANGED <<trustCerts, globalCertPool, pools, DisableEmbedCa, DisableSystemCa,
                 tlsVars, status, ret, opsLeft, resets, configs>>

\* line 161: tlsConfig.RootCAs = getCertPool(), and what follows it.  In the
\* outer call (site "root"): lines 163-169, the fingerprint's conversion and
\* GetGlobalTLSConfig's call of getCertPool, or the return of line 173.  In
\* GetGlobalTLSConfig's call (site "fp"): lines 170-173.
GetTLSConfig_Roots(t) ==
  /\ At(t, "gt_pool")
  /\ LET cfg == [loc[t].cfg EXCEPT !.RootCAs = GlobalRoots(loc[t].got)]
         fingerprint == loc[t].fp
         conv == caConverted[fingerprint]
         pinned == [cfg EXCEPT !.VerifyPeerCertificate = VerifyFingerprintCallback(conv.fp),
                               !.InsecureSkipVerify = TRUE]
     IN IF loc[t].site = "root" /\ fingerprint = ""
        THEN /\ ReturnTLSConfig(t, loc[t], "nil", cfg, cfg)
             /\ configs' = Held(cfg)
        ELSE IF loc[t].site = "root" /\ conv.err
        THEN /\ ReturnTLSConfig(t, loc[t], "fingerprint error", NilConfig, cfg)
             /\ UNCHANGED configs
        ELSE IF loc[t].site = "root"
        THEN /\ pc' = [pc EXCEPT ![t] = "gp_check"]
             /\ loc' = [loc EXCEPT ![t].cfg = cfg, ![t].site = "fp"]
             /\ UNCHANGED <<ret, configs>>
        ELSE /\ ReturnTLSConfig(t, loc[t], "nil", pinned, pinned)
             /\ configs' = Held(pinned)
  /\ UNCHANGED <<caVars, tlsVars, status, opsLeft, resets>>

\* ------------------------------------------------------------ package state
\* var globalFingerprints = make([][32]byte, 0): no backing array, length 0
EmptySlice == [ptr |-> 0, len |-> 0, cap |-> 0]

\* the package-level variables as the Go runtime initialises them; the two
\* flags come from the environment
InitPackages ==
  /\ trustCerts = <<>>
  /\ globalCertPool = NilPool
  /\ pools = <<>>
  /\ mutex = NoThread
  /\ DisableEmbedCa \in BOOLEAN
  /\ DisableSystemCa \in BOOLEAN
  /\ globalFingerprints = EmptySlice
  /\ arrays = <<>>
  /\ tlsMutex = NoThread
  /\ status = "running"
  /\ resets = 0
  /\ configs = {}

InitThreads(n) ==
  /\ pc = [t \in Threads |-> "idle"]
  /\ loc = [t \in Threads |-> EmptyLoc]
  /\ ret = [t \in Threads |-> NoReturn]
  /\ opsLeft = [t \in Threads |-> n]

\* ---------------------------------------- package ca under concurrent calls
\* the fingerprint, customCA and customCAString arguments of the concurrent
\* callers of GetTLSConfig
ConcurrentFps == {"", "x_colon"}

Init == InitPackages /\ InitThreads(MaxOps) /\ recording = FALSE

StepCA(t) ==
  \/ \E certificate \in CertTexts : AddCertificate_Lock(t, certificate)
  \/ AddCertificate_Parse(t)
  \/ AddCertificate_Append(t)
  \/ AddCertificate_AddCert(t)
  \/ \E bundle \in KeyPairBundles : AddCertificateKeyPair_Call(t, bundle)
  \/ AddCertificateKeyPair_Read(t)
  \/ AddCertificateKeyPair_Append(t)
  \/ AddCertificateKeyPair_AddCert(t)
  \/ ResetCertificate_Lock(t)
  \/ ResetCertificate_Clear(t)
  \/ initializeCertPool_Base(t)
  \/ initializeCertPool_Fallback(t)
  \/ initializeCertPool_Custom(t)
  \/ initializeCertPool_Embed(t)
  \/ getCertPool_Check(t)
  \/ getCertPool_Lock(t)
  \/ getCertPool_Recheck(t)
  \/ getCertPool_Return(t)
  \/ GetTLSConfig_Roots(t)

\* The body of initializeCertPool's loop runs only when another goroutine has
\* put a certificate in trustCerts: a goroutine on its own reaches line 82
\* with an empty list (ResetCertificate has just cleared it; getCertPool finds
\* the pool nil, and every addition to a nil pool has panicked).
Next ==
  \E t \in Threads :
    \/ StepCA(t)
    \/ initializeCertPool_AddCert(t)
    \/ \E fingerprint \in ConcurrentFps :
         GetTLSConfig_Call(t, NilConfig, fingerprint, "", "")

Spec == Init /\ [][Next]_vars

\* ------------------------------------------- package tls: globalFingerprints
ZeroFp == [i \in 1..FingerprintLen |-> 0]

\* the pins of the slice header h: the first h.len elements of its array
SliceElems(h) == [i \in 1..h.len |-> arrays[h.ptr][i]]

\* the global PinSet, in the order of addition
PinList == SliceElems(globalFingerprints)

\* the capacity append grows a full slice to (runtime.growslice, small slices)
GrowCap(cap) == IF cap = 0 THEN 1 ELSE 2 * cap

\* lines 53-59: convertFingerprint, and on success mutex.Lock()
AddCertFingerprint_Lock(t, fingerprint) ==
  /\ CanCall(t) /\ Called(t)
  /\ LET conv == tlsConverted[fingerprint]
     IN IF conv.err
        THEN /\ Return(t, "AddCertFingerprint", fingerprint, "fingerprint error")
             /\ UNCHANGED tlsMutex
        ELSE /\ tlsMutex = NoThread
             /\ tlsMutex' = t
             /\ pc' = [pc EXCEPT ![t] = "afp_append"]
             /\ loc' = [loc EXCEPT ![t] = [EmptyLoc EXCEPT !.op = "AddCertFingerprint",
                                             !.fp = fingerprint, !.bytes = conv.fp]]
             /\ UNCHANGED ret
  /\ UNCHANGED <<caVars, globalFingerprints, arrays, status, resets, configs>>

\* lines 60-62: globalFingerprints = append(globalFingerprints, *fpByte);
\* mutex.Unlock(); return nil.  append writes the element into the backing
\* array (a new one, with the old elements copied, when the slice is full)
\* and then stores the new slice header.
AddCertFingerprint_Append(t) ==
  /\ At(t, "afp_append")
  /\ LET h == globalFingerprints
         grown == [i \in 1..GrowCap(h.cap) |->
                     IF i <= h.len THEN arrays[h.ptr][i]
                     ELSE IF i = h.len + 1 THEN loc[t].bytes ELSE ZeroFp]
     IN IF h.len < h.cap
        THEN /\ arrays' = [arrays EXCEPT ![h.ptr][h.len + 1] = loc[t].bytes]
             /\ globalFingerprints' = [h EXCEPT !.len = @ + 1]
        ELSE /\ arrays' = Append(arrays, grown)
             /\ globalFingerprints' =
                  [ptr |-> Len(arrays) + 1, len |-> h.len + 1, cap |-> GrowCap(h.cap)]
  /\ tlsMutex' = NoThread
  /\ Return(t, "AddCertFingerprint", loc[t].fp, "nil")
  /\ UNCHANGED <<caVars, status, opsLeft, resets, configs>>

\* --------------------------------------------- package tls: config builders
\* verifyPeerCertificateAndFingerprints(fingerprints, insecureSkipVerify),
\* lines 19-51: the closure holds the pointer it was given
TlsCallback(global, pins, insecureSkipVerify) ==
  [kind |-> "verifyPeerCertificateAndFingerprints", global |-> global, pins |-> pins,
   insecureSkipVerify |-> insecureSkipVerify]

\* lines 82-97 (and their XTLS twin, lines 117-132)
GetSpecifiedFingerprintTLSConfig(t, tlsConfig, fingerprint) ==
  /\ CanCall(t) /\ Called(t)
  /\ LET conv == tlsConverted[fingerprint]
         cfg == IF tlsConfig.nil
                THEN [NewConfig(TRUE) EXCEPT !.VerifyPeerCertificate =
                        TlsCallback(FALSE, <<conv.fp>>, FALSE)]
                ELSE [tlsConfig EXCEPT
                        !.VerifyPeerCertificate =
                           TlsCallback(FALSE, <<conv.fp>>, tlsConfig.InsecureSkipVerify),
                        !.InsecureSkipVerify = TRUE]
     IN IF conv.err
        THEN /\ ReturnConfig(t, "GetSpecifiedFingerprintTLSConfig", fingerprint,
                             "fingerprint error", NilConfig, tlsConfig, tlsConfig)
             /\ UNCHANGED configs
        ELSE /\ ReturnConfig(t, "GetSpecifiedFingerprintTLSConfig", fingerprint, "nil",
                             cfg, cfg, tlsConfig)
             /\ configs' = Held(cfg)
  /\ UNCHANGED <<caVars, tlsVars, status, resets>>

\* GetGlobalFingerprintTLSConfig had line 103 been
\*   shouldSkipVerify := len(globalFingerprints) >= 0 || ...
\* (true whatever the pins).  Not part of Next.
GetGlobalFingerprintTLSConfig_AlwaysSkip(t, tlsConfig) ==
  /\ CanCall(t) /\ Called(t)
  /\ LET shouldSkipVerify == TRUE
         cfg == IF tlsConfig.nil
                THEN [NewConfig(shouldSkipVerify) EXCEPT !.VerifyPeerCertificate =
                        TlsCallback(TRUE, <<>>, FALSE)]
                ELSE [tlsConfig EXCEPT
                        !.VerifyPeerCertificate =
                           TlsCallback(TRUE, <<>>, tlsConfig.InsecureSkipVerify),
                        !.InsecureSkipVerify = shouldSkipVerify]
     IN /\ ReturnConfig(t, "GetGlobalFingerprintTLSConfig", "", "nil", cfg, cfg, tlsConfig)
        /\ configs' = Held(cfg)
  /\ UNCHANGED <<caVars, tlsVars, status, resets>>

\* GetGlobalFingerprintTLSConfig had line 103 been
\*   shouldSkipVerify := tlsConfig != nil && tlsConfig.InsecureSkipVerify
\* (the pins not looked at): the transport would then validate the chain
\* before the callback is reached.  Not part of Next; the pin fallback's
\* property is checked to fail for it.
GetGlobalFingerprintTLSConfig_CallerSkipOnly(t, tlsConfig) ==
  /\ CanCall(t) /\ Called(t)
  /\ LET shouldSkipVerify == ~tlsConfig.nil /\ tlsConfig.InsecureSkipVerify
         cfg == IF tlsConfig.nil
                THEN [NewConfig(shouldSkipVerify) EXCEPT !.VerifyPeerCertificate =
                        TlsCallback(TRUE, <<>>, FALSE)]
                ELSE [tlsConfig EXCEPT
                        !.VerifyPeerCertificate =
                           TlsCallback(TRUE, <<>>, tlsConfig.InsecureSkipVerify),
                        !.InsecureSkipVerify = shouldSkipVerify]
     IN /\ ReturnConfig(t, "GetGlobalFingerprintTLSConfig", "", "nil", cfg, cfg, tlsConfig)
        /\ configs' = Held(cfg)
  /\ UNCHANGED <<caVars, tlsVars, status, resets>>

\* lines 99-114 (and their XTLS twin, lines 134-146); GetDefaultTLSConfig,
\* lines 77-79, is the call with a nil config.  len(globalFingerprints) is
\* read without the lock.
GetGlobalFingerprintTLSConfig(t, tlsConfig) ==
  /\ CanCall(t) /\ Called(t)
  /\ LET shouldSkipVerify ==
           globalFingerprints.len # 0 \/ (~tlsConfig.nil /\ tlsConfig.InsecureSkipVerify)
         cfg == IF tlsConfig.nil
                THEN [NewConfig(shouldSkipVerify) EXCEPT !.VerifyPeerCertificate =
                        TlsCallback(TRUE, <<>>, FALSE)]
                ELSE [tlsConfig EXCEPT
                        !.VerifyPeerCertificate =
                           TlsCallback(TRUE, <<>>, tlsConfig.InsecureSkipVerify),
                        !.InsecureSkipVerify = shouldSkipVerify]
     IN /\ ReturnConfig(t, "GetGlobalFingerprintTLSConfig", "", "nil", cfg, cfg, tlsConfig)
        /\ configs' = Held(cfg)
  /\ UNCHANGED <<caVars, tlsVars, status, resets>>

\* ------------------------------------------------ the verification callback
\* var errNotMatch (part_001 line 27)
errNotMatch == "certificate fingerprints do not match"

\* the error of cert.Verify(opts) for a certificate that does not validate
VerifyError(raw) ==
  CASE raw = "leaf_ca1" -> "x509: unknown authority (leaf_ca1)"
    [] raw = "leaf_ca2" -> "x509: unknown authority (leaf_ca2)"
    [] raw = "leaf_x" -> "x509: unknown authority (leaf_x)"
    [] raw = "inter_x" -> "x509: unknown authority (inter_x)"
    [] OTHER -> "x509: unknown authority"

\* the chains peers present (rawCerts), leaf first or not
Chains ==
  { <<>>, <<"junk">>, <<"leaf_os">>, <<"leaf_x">>, <<"leaf_ca1">>,
    <<"leaf_x", "inter_x">>, <<"inter_x", "leaf_x">>, <<"junk", "leaf_x">>,
    <<"leaf_ca2", "leaf_os">> }

\* verifyFingerprint's closure, part_001 lines 110-123: nil if some
\* certificate of the chain parses and has the digest, else errNotMatch
VerifyFingerprint(fingerprint, rawCerts) ==
  IF \E i \in 1..Len(rawCerts) :
       Parses(rawCerts[i]) /\ Sha256(rawCerts[i]) = fingerprint
  THEN "nil"
  ELSE errNotMatch

\* the caller (the TLS layer, or a test) invokes cfg.VerifyPeerCertificate
VerifyPeerCertificate_Call(t, cfg, rawCerts) ==
  /\ CanCall(t) /\ Called(t)
  /\ cfg.VerifyPeerCertificate.kind # "nil"
  /\ pc' = [pc EXCEPT ![t] = "cb_cert"]
  /\ loc' = [loc EXCEPT ![t] = [EmptyLoc EXCEPT !.op = "VerifyPeerCertificate",
                                  !.cfg = cfg, !.chain = rawCerts, !.idx = 1]]
  /\ UNCHANGED <<caVars, tlsVars, status, ret, resets, configs>>

\* One turn of the callback.  verifyFingerprint's closure runs whole (it
\* reads no shared state).  verifyPeerCertificateAndFingerprints, part_000
\* lines 20-49: return nil when insecureSkipVerify; past the last
\* certificate return preErr; skip a certificate that does not parse; return
\* nil for one that cert.Verify accepts (VerifyOptions names no roots: the
\* system roots); otherwise go on to the pins, for &globalFingerprints by
\* reading the slice's pointer.
Callback_Cert(t) ==
  /\ At(t, "cb_cert")
  /\ LET cfg == loc[t].cfg
         cb == cfg.VerifyPeerCertificate
         chain == loc[t].chain
         i == loc[t].idx
     IN IF cb.kind = "verifyFingerprint"
        THEN ReturnVerdict(t, loc[t].op, cfg, chain, VerifyFingerprint(cb.pins[1], chain))
        ELSE IF cb.insecureSkipVerify
        THEN ReturnVerdict(t, loc[t].op, cfg, chain, "nil")
        ELSE IF i > Len(chain)
        THEN ReturnVerdict(t, loc[t].op, cfg, chain, loc[t].preErr)
        ELSE IF ~Parses(chain[i])
        THEN /\ loc' = [loc EXCEPT ![t].idx = i + 1]
             /\ UNCHANGED <<pc, ret>>
        ELSE IF ChainValidates(chain[i], OSRoots)
        THEN ReturnVerdict(t, loc[t].op, cfg, chain, "nil")
        ELSE IF cb.global
        THEN /\ loc' = [loc EXCEPT ![t].ptr = globalFingerprints.ptr]
             /\ pc' = [pc EXCEPT ![t] = "cb_len"]
             /\ UNCHANGED ret
        ELSE /\ loc' = [loc EXCEPT ![t].view = cb.pins]
             /\ pc' = [pc EXCEPT ![t] = "cb_match"]
             /\ UNCHANGED ret
  /\ UNCHANGED <<caVars, tlsVars, status, opsLeft, resets, configs>>

\* what a read past the end of a backing array can return
Garbage == {ZeroFp, Sha256("leaf_x")}

\* line 38: range *fingerprints, the rest of the slice header's read: the
\* length, read after the pointer and without the lock.  The elements are
\* those of the array the pointer names; an index past that array's end
\* reads whatever lies behind it.
Callback_Len(t) ==
  /\ At(t, "cb_len")
  /\ \E g \in Garbage :
       loc' = [loc EXCEPT ![t].view =
                 [k \in 1..globalFingerprints.len |->
                    IF loc[t].ptr # 0 /\ k <= Len(arrays[loc[t].ptr])
                    THEN arrays[loc[t].ptr][k]
                    ELSE g]]
  /\ pc' = [pc EXCEPT ![t] = "cb_match"]
  /\ UNCHANGED <<caVars, tlsVars, status, ret, opsLeft, resets, configs>>

\* lines 37-44: the digest against each pin read: return nil on a match,
\* else preErr = err and the next certificate
Callback_Match(t) ==
  /\ At(t, "cb_match")
  /\ LET raw == loc[t].chain[loc[t].idx]
     IN IF Sha256(raw) \in Range(loc[t].view)
        THEN ReturnVerdict(t, loc[t].op, loc[t].cfg, loc[t].chain, "nil")
        ELSE /\ loc' = [loc EXCEPT ![t].preErr = VerifyError(raw), ![t].idx = @ + 1,
                                   ![t].view = <<>>]
             /\ pc' = [pc EXCEPT ![t] = "cb_cert"]
             /\ UNCHANGED ret
  /\ UNCHANGED <<caVars, tlsVars, status, opsLeft, resets, configs>>

\* ------------------------------------------------------------ the TLS layer
\* the roots crypto/tls validates against: Config.RootCAs, the host's root
\* set when it is nil
RootsOf(cfg) ==
  CASE cfg.RootCAs.kind = "custom" -> cfg.RootCAs.certs
    [] cfg.RootCAs.kind = "global" /\ cfg.RootCAs.id # NilPool -> pools[cfg.RootCAs.id]
    [] OTHER -> OSRoots

\* crypto/tls's own part of a client handshake on cfg: the peer must present
\* certificates, all of them must parse, and unless InsecureSkipVerify the
\* leaf must validate against the roots; "nil" when that is passed
TransportVerify(cfg, chain) ==
  IF chain = <<>> THEN "tls: received empty certificates message"
  ELSE IF \E i \in 1..Len(chain) : ~Parses(chain[i])
  THEN "tls: failed to parse certificate from server"
  ELSE IF ~cfg.InsecureSkipVerify /\ ~ChainValidates(chain[1], RootsOf(cfg))
  THEN VerifyError(chain[1])
  ELSE "nil"

\* verifyPeerCertificateAndFingerprints' closure run from certificate i on
\* with nobody else running, part_000 lines 25-49: `fingerprints` is what the
\* closure's pointer names
RECURSIVE VerifyLoop(_, _, _, _)
VerifyLoop(fingerprints, rawCerts, i, preErr) ==
  IF i > Len(rawCerts) THEN preErr
  ELSE IF ~Parses(rawCerts[i]) THEN VerifyLoop(fingerprints, rawCerts, i + 1, preErr)
  ELSE IF ChainValidates(rawCerts[i], OSRoots) THEN "nil"
  ELSE IF Sha256(rawCerts[i]) \in Range(fingerprints) THEN "nil"
  ELSE VerifyLoop(fingerprints, rawCerts, i + 1, VerifyError(rawCerts[i]))

\* what cfg.VerifyPeerCertificate(rawCerts, nil) returns when it runs with
\* nobody else running: "nil" accepts the peer
CallbackVerdict(cb, rawCerts) ==
  IF cb.kind = "verifyFingerprint" THEN VerifyFingerprint(cb.pins[1], rawCerts)
  ELSE IF cb.insecureSkipVerify THEN "nil"
  ELSE VerifyLoop(IF cb.global THEN PinList ELSE cb.pins, rawCerts, 1, "nil")

\* a client handshake on cfg with a peer presenting `chain`: crypto/tls's
\* part, then cfg.VerifyPeerCertificate if there is one
HandshakeVerdict(cfg, chain) ==
  IF TransportVerify(cfg, chain) # "nil" \/ cfg.VerifyPeerCertificate.kind = "nil"
  THEN TransportVerify(cfg, chain)
  ELSE CallbackVerdict(cfg.VerifyPeerCertificate, chain)

\* ------------------------------------------ package ca, one goroutine alone
\* The calls one after another, the callers' view recorded.  GetTLSConfig is
\* called for the global pool (with and without a fingerprint) and with a
\* custom CA file.
SeqFps == {"", "x_colon"}
SeqFiles == {"", "ca1.pem"}

InitSeq == InitPackages /\ InitThreads(MaxSeqOps) /\ recording = TRUE

NextSeq ==
  \E t \in {"g1"} :
    \/ StepCA(t)
    \/ \E fingerprint \in SeqFps, customCA \in SeqFiles :
         GetTLSConfig_Call(t, NilConfig, fingerprint, customCA, "")

SpecSeq == InitSeq /\ [][NextSeq]_vars

\* ----------------------------------------- package tls, one goroutine alone
StepTLS(t) ==
  \/ AddCertFingerprint_Append(t)
  \/ Callback_Cert(t)
  \/ Callback_Len(t)
  \/ Callback_Match(t)

NextVerify ==
  \E t \in {"g1"} :
    \/ StepTLS(t)
    \/ \E fingerprint \in FpNames : AddCertFingerprint_Lock(t, fingerprint)
    \/ \E tlsConfig \in ConfigInputs, fingerprint \in FpNames :
         GetSpecifiedFingerprintTLSConfig(t, tlsConfig, fingerprint)
    \/ \E tlsConfig \in ConfigInputs : GetGlobalFingerprintTLSConfig(t, tlsConfig)
    \/ \E cfg \in configs, chain \in Chains : VerifyPeerCertificate_Call(t, cfg, chain)

SpecVerify == InitSeq /\ [][NextVerify]_vars

\* -------------------------------------- package tls under concurrent calls
\* the fingerprints and chains of the concurrent callers
ConcurrentPins == {"x_lower", "inter_lower"}
ConcurrentChains == { <<"leaf_x">>, <<"inter_x", "leaf_x">> }

InitPin == InitPackages /\ InitThreads(MaxOps) /\ recording = TRUE

NextPin ==
  \E t \in Threads :
    \/ StepTLS(t)
    \/ \E fingerprint \in ConcurrentPins : AddCertFingerprint_Lock(t, fingerprint)
    \/ GetGlobalFingerprintTLSConfig(t, NilConfig)
    \/ \E cfg \in configs, chain \in ConcurrentChains :
         VerifyPeerCertificate_Call(t, cfg, chain)

SpecPin == InitPin /\ [][NextPin]_vars

\* ------------------------------------- building configs, one goroutine alone
\* A caller builds configs with every combination of arguments: GetTLSConfig
\* of package ca with a config or none, a fingerprint text or none, a CA file
\* or none and a CA string or none; the two builders of package tls, with
\* pins added to the global list in between.
ConfigPins == {"x_lower", "x_colon"}
ConfigFps == {"", "x_colon", "short", "nonhex"}

InitConfig == InitPackages /\ InitThreads(MaxConfigOps) /\ recording = TRUE

NextConfig ==
  \E t \in {"g1"} :
    \/ \E tlsConfig \in ConfigInputs, fingerprint \in ConfigFps,
          customCA \in CAFiles, customCAString \in CAStrings :
         GetTLSConfig_Call(t, tlsConfig, fingerprint, customCA, customCAString)
    \/ getCertPool_Check(t)
    \/ getCertPool_Lock(t)
    \/ getCertPool_Recheck(t)
    \/ initializeCertPool_Base(t)
    \/ initializeCertPool_Fallback(t)
    \/ initializeCertPool_Custom(t)
    \/ initializeCertPool_Embed(t)
    \/ getCertPool_Return(t)
    \/ GetTLSConfig_Roots(t)
    \/ \E fingerprint \in ConfigPins : AddCertFingerprint_Lock(t, fingerprint)
    \/ AddCertFingerprint_Append(t)
    \/ \E tlsConfig \in ConfigInputs, fingerprint \in ConfigFps :
         GetSpecifiedFingerprintTLSConfig(t, tlsConfig, fingerprint)
    \/ \E tlsConfig \in ConfigInputs : GetGlobalFingerprintTLSConfig(t, tlsConfig)

SpecConfig == InitConfig /\ [][NextConfig]_vars

\* ----------------------------------- getCertPool under concurrent first calls
\* Two goroutines call GetTLSConfig, and through it getCertPool, from the
\* start; nobody adds a certificate or resets.
InitPool == InitPackages /\ InitThreads(MaxOps) /\ recording = TRUE

NextPool ==
  \E t \in Threads :
    \/ \E fingerprint \in ConcurrentFps :
         GetTLSConfig_Call(t, NilConfig, fingerprint, "", "")
    \/ getCertPool_Check(t)
    \/ getCertPool_Lock(t)
    \/ getCertPool_Recheck(t)
    \/ initializeCertPool_Base(t)
    \/ initializeCertPool_Fallback(t)
    \/ initializeCertPool_Custom(t)
    \/ initializeCertPool_Embed(t)
    \/ getCertPool_Return(t)
    \/ GetTLSConfig_Roots(t)

SpecPool == InitPool /\ [][NextPool]_vars

\* ------------------------------------------- the locks under concurrent calls
\* Two goroutines call AddCertificate, ResetCertificate, GetTLSConfig (and
\* through it getCertPool) and AddCertFingerprint in any order.
InitLock == InitPackages /\ InitThreads(MaxOps) /\ recording = FALSE

NextLock ==
  \E t \in Threads :
    \/ \E certificate \in CertTexts : AddCertificate_Lock(t, certificate)
    \/ AddCertificate_Parse(t)
    \/ AddCertificate_Append(t)
    \/ AddCertificate_AddCert(t)
    \/ ResetCertificate_Lock(t)
    \/ ResetCertificate_Clear(t)
    \/ initializeCertPool_Base(t)
    \/ initializeCertPool_Fallback(t)
    \/ initializeCertPool_Custom(t)
    \/ initializeCertPool_Embed(t)
    \/ GetTLSConfig_Call(t, NilConfig, "", "", "")
    \/ getCertPool_Check(t)
    \/ getCertPool_Lock(t)
    \/ getCertPool_Recheck(t)
    \/ getCertPool_Return(t)
    \/ GetTLSConfig_Roots(t)
    \/ \E fingerprint \in ConcurrentPins : AddCertFingerprint_Lock(t, fingerprint)
    \/ AddCertFingerprint_Append(t)

SpecLock == InitLock /\ [][NextLock]_vars

\* ================================================================== claims
\* no call is between its first and its last step
Quiescent == \A t \in Threads : pc[t] = "idle"

\* the positions of initializeCertPool after it has stored the new pool's
\* handle in globalCertPool and before it has finished filling the pool
Filling == {"init_custom", "init_add", "init_embed"}

\* what a finished pool holds whatever the custom certificates are
PoolComplete(p) ==
  /\ p # NilPool
  /\ ~DisableEmbedCa => EmbeddedRoots \subseteq pools[p]
  /\ ~(\E u \in Threads : pc[u] \in Filling /\ globalCertPool = p)

\* C1: a goroutine that has just got the pool from getCertPool never holds a
\* partially rebuilt pool: the handle names a pool, the pool holds the
\* embedded roots unless they are disabled, and no initializeCertPool is
\* still filling it.
C1_ReaderNeverSeesPartialPool ==
  \A t \in Threads : pc[t] = "gt_pool" => PoolComplete(loc[t].got)

\* the positions from which a goroutine's next step writes trustCerts,
\* globalCertPool or a pool of package ca
CaWritePositions ==
  {"ac_write", "ac_pool", "kp_write", "kp_pool", "rs_clear", "init_sys",
   "init_sysfail", "init_add", "init_embed"}

\* C2: every write to the custom-certificate list, the derived pool and the
\* pin list is made by the goroutine that holds the package's exclusive lock.
C2_WritesHoldTheLock ==
  \A t \in Threads :
    /\ pc[t] \in CaWritePositions => mutex = t
    /\ pc[t] = "afp_append" => tlsMutex = t

IsPrefix(a, b) == Len(a) <= Len(b) /\ \A i \in 1..Len(a) : a[i] = b[i]

\* C3: the pins the callback iterates over are the global PinSet as it was
\* before or after an addition: pins are only ever appended, so such a view
\* is a prefix of the pins in their order of addition.
C3_PinReadsAreNeverTorn ==
  \A t \in Threads :
    (pc[t] = "cb_match" /\ loc[t].cfg.VerifyPeerCertificate.global)
      => IsPrefix(loc[t].view, PinList)

\* a peer certificate that validates through the custom certificate c only
LeafOf(c) == IF c = "ca1" THEN "leaf_ca1" ELSE "leaf_ca2"

\* a config in standard-chain-only mode on the derived pool: no callback, no
\* skip-validation, RootCAs the handle getCertPool returned
StandardChainOnly(cfg) ==
  /\ cfg.VerifyPeerCertificate.kind = "nil"
  /\ ~cfg.InsecureSkipVerify
  /\ cfg.RootCAs.kind = "global"

\* C4: when ResetCertificate has returned, no custom certificate is left in
\* the custom-certificate list or in the derived pool, and a handshake on any
\* standard-chain-only config a caller holds (built before the Reset or
\* after it) rejects a peer that validates only through a custom certificate.
C4_ResetRevokesCustomTrust ==
  \A t \in Threads :
    (pc[t] = "idle" /\ ret[t].op = "ResetCertificate") =>
      /\ trustCerts = <<>>
      /\ pools[globalCertPool] \cap CustomCerts = {}
      /\ \A cfg \in configs : \A c \in CustomCerts :
           StandardChainOnly(cfg) => HandshakeVerdict(cfg, <<LeafOf(c)>>) # "nil"

ValidCertText(text) == ParseCertificate(PemDecode(text)) # NilCert

\* C5: AddCertificate of a valid PEM certificate never fails, whatever the
\* state it is called in: the call does not panic, it returns nil, and the
\* certificate is then in the custom-certificate list and in the derived pool.
C5_AddCertificateAlwaysSucceeds ==
  \A t \in Threads :
    /\ (loc[t].op = "AddCertificate" /\ ValidCertText(loc[t].text))
         => pc[t] # "panicked"
    /\ (pc[t] = "idle" /\ ret[t].op = "AddCertificate" /\ ValidCertText(ret[t].arg))
         => /\ ret[t].err = "nil"
            /\ ParseCertificate(PemDecode(ret[t].arg)) \in Range(trustCerts)
            /\ globalCertPool # NilPool
            /\ ParseCertificate(PemDecode(ret[t].arg)) \in pools[globalCertPool]

\* C6: with no call in progress and the pool initialised, the derived pool
\* is the OS roots (none when DISABLE_SYSTEM_CA; read here as: none either
\* when their retrieval failed), the embedded roots unless DISABLE_EMBED_CA,
\* and exactly the custom certificates of the custom-certificate list.
C6_PoolIsItsComposition ==
  (Running /\ Quiescent /\ globalCertPool # NilPool) =>
    /\ pools[globalCertPool] \ OSRoots =
         (IF DisableEmbedCa THEN {} ELSE EmbeddedRoots) \cup Range(trustCerts)
    /\ DisableSystemCa => pools[globalCertPool] \cap OSRoots = {}

\* the config holds a callback built for one explicit fingerprint
ExplicitPin(cfg) ==
  \/ cfg.VerifyPeerCertificate.kind = "verifyFingerprint"
  \/ /\ cfg.VerifyPeerCertificate.kind = "verifyPeerCertificateAndFingerprints"
     /\ ~cfg.VerifyPeerCertificate.global

\* some certificate of the chain parses and has one of the digests
ChainMatches(chain, fingerprints) ==
  \E i \in 1..Len(chain) : Parses(chain[i]) /\ Sha256(chain[i]) \in Range(fingerprints)

\* some certificate of the chain validates against the system roots
ChainHasValid(chain) == \E i \in 1..Len(chain) : ChainValidates(chain[i], OSRoots)

\* C7: a config built for an explicit fingerprint F has the skip-validation
\* flag set, and its callback accepts a chain exactly when some parseable
\* certificate of the chain has digest F.
C7_ExplicitPinIsPinOnly ==
  \A t \in Threads :
    (pc[t] = "idle" /\ ret[t].op = "VerifyPeerCertificate" /\ ExplicitPin(ret[t].cfg)) =>
      /\ ret[t].cfg.InsecureSkipVerify
      /\ ret[t].err = "nil"
           <=> ChainMatches(ret[t].chain, ret[t].cfg.VerifyPeerCertificate.pins)

\* the caller handed in a config that asks to skip validation
CallerSkip(tlsConfig) == ~tlsConfig.nil /\ tlsConfig.InsecureSkipVerify

\* a peer chain the transport can read and no certificate of which validates
Unverifiable(chain) ==
  /\ chain # <<>>
  /\ \A i \in 1..Len(chain) : Parses(chain[i])
  /\ ~ChainHasValid(chain)

\* C8: GetGlobalFingerprintTLSConfig called without a skip-validation
\* request, and a peer whose chain validates for no certificate: if the
\* global pins hold the leaf's digest, the handshake on the config returned
\* accepts the peer and so does the callback when it is run; if no pin is
\* configured the handshake on the config returned rejects the same peer.
C8_PinFallbackAcceptsWherePlainChainRejects ==
  \A t \in Threads :
    /\ (pc[t] = "idle" /\ ret[t].op = "GetGlobalFingerprintTLSConfig"
          /\ ~CallerSkip(ret[t].input)) =>
         \A chain \in Chains :
           Unverifiable(chain) =>
             /\ Sha256(chain[1]) \in Range(PinList)
                  => HandshakeVerdict(ret[t].cfg, chain) = "nil"
             /\ PinList = <<>> => HandshakeVerdict(ret[t].cfg, chain) # "nil"
    /\ (pc[t] = "idle" /\ ret[t].op = "VerifyPeerCertificate"
          /\ ret[t].cfg.VerifyPeerCertificate.global
          /\ Unverifiable(ret[t].chain)
          /\ Sha256(ret[t].chain[1]) \in Range(PinList))
         => ret[t].err = "nil"

\* C8's case: the pinned peer <<leaf_x, inter_x>>, accepted by the handshake
\* on a config built with the pin in place and by its callback when run
C8_Witness ==
  \E t \in Threads :
    /\ pc[t] = "idle" /\ ret[t].op = "VerifyPeerCertificate"
    /\ ret[t].cfg.VerifyPeerCertificate.global
    /\ ~ret[t].cfg.VerifyPeerCertificate.insecureSkipVerify
    /\ ret[t].cfg.InsecureSkipVerify
    /\ ret[t].chain = <<"leaf_x", "inter_x">>
    /\ Sha256("leaf_x") \in Range(PinList)
    /\ ret[t].err = "nil"
    /\ HandshakeVerdict(ret[t].cfg, ret[t].chain) = "nil"

\* the pins a callback compares with
ApplicablePins(cb) == IF cb.global THEN PinList ELSE cb.pins

\* the last certificate of the chain that parses, 0 if none does
LastParseable(chain) ==
  IF \E i \in 1..Len(chain) : Parses(chain[i])
  THEN CHOOSE i \in 1..Len(chain) :
         Parses(chain[i]) /\ \A j \in (i + 1)..Len(chain) : ~Parses(chain[j])
  ELSE 0

\* the rejection reason: the last chain-validation error of a callback that
\* validates chains, the generic mismatch error when none was attempted
RejectReason(cb, chain) ==
  IF cb.kind = "verifyPeerCertificateAndFingerprints" /\ LastParseable(chain) # 0
  THEN VerifyError(chain[LastParseable(chain)])
  ELSE errNotMatch

\* C9: a callback not built from a caller's skip-validation request, run on
\* a chain with no validating certificate and no certificate matching the
\* applicable pins (the empty chain and an all-unparseable chain included),
\* returns an error: the most recent chain-validation error, the generic
\* mismatch error if no chain validation was attempted.
C9_UnmatchedChainIsRejected ==
  \A t \in Threads :
    (pc[t] = "idle" /\ ret[t].op = "VerifyPeerCertificate"
       /\ ~ret[t].cfg.VerifyPeerCertificate.insecureSkipVerify
       /\ ~ChainMatches(ret[t].chain, ApplicablePins(ret[t].cfg.VerifyPeerCertificate))
       /\ (ret[t].cfg.VerifyPeerCertificate.kind = "verifyPeerCertificateAndFingerprints"
             => ~ChainHasValid(ret[t].chain)))
      => /\ ret[t].err # "nil"
         /\ ret[t].err = RejectReason(ret[t].cfg.VerifyPeerCertificate, ret[t].chain)

\* a pin is configured for the config: an explicit fingerprint in its
\* callback, or a callback on the global pins and these not empty
PinConfigured(cfg) ==
  /\ cfg.VerifyPeerCertificate.kind # "nil"
  /\ ~cfg.VerifyPeerCertificate.global \/ PinList # <<>>

\* the handshake on cfg accepts whatever chain the peer presents
AcceptsUnconditionally(cfg) ==
  /\ cfg.InsecureSkipVerify
  /\ \/ cfg.VerifyPeerCertificate.kind = "nil"
     \/ \A chain \in Chains : CallbackVerdict(cfg.VerifyPeerCertificate, chain) = "nil"

\* C10: a config a caller holds accepts every peer unconditionally only if
\* the caller asked to skip validation and no pin is configured for it; with
\* a pin configured, a chain the handshake accepts has a validating or a
\* pin-matching certificate.
C10_UnconditionalAcceptOnlyByOptOutWithoutPins ==
  \A cfg \in configs :
    /\ AcceptsUnconditionally(cfg)
         => cfg.VerifyPeerCertificate.insecureSkipVerify /\ ~PinConfigured(cfg)
    /\ PinConfigured(cfg) =>
         \A chain \in Chains :
           HandshakeVerdict(cfg, chain) = "nil"
             => \/ \E i \in 1..Len(chain) : ChainValidates(chain[i], RootsOf(cfg))
                \/ ChainMatches(chain, ApplicablePins(cfg.VerifyPeerCertificate))

\* the errors AddCertificate returns for a text that is no certificate
MalformedCertificate == {"decode certificate failed", "add certificate failed"}

\* C11: AddCertificate of a non-empty text that fails PEM decoding or X.509
\* parsing returns a malformed-certificate error to its caller, leaves
\* trustCerts and the derived pool as they were, releases the lock and does
\* not end the process.
C11_MalformedCertificateIsReturned ==
  [][\A t \in Threads :
       (/\ pc[t] = "ac_parse" /\ pc'[t] # "ac_parse"
        /\ loc[t].text # "" /\ ~ValidCertText(loc[t].text))
         => /\ status' = "running"
            /\ pc'[t] = "idle"
            /\ ret'[t].op = "AddCertificate"
            /\ ret'[t].err \in MalformedCertificate
            /\ UNCHANGED <<trustCerts, globalCertPool, pools>>
            /\ mutex' = NoThread]_vars

\* C14: AddCertificate("") returns the empty-input error and neither of its
\* steps changes trustCerts or the derived pool, whatever the state it is
\* called in; the lock is free again when it returns.
C14_EmptyCertificateChangesNothing ==
  [][\A t \in Threads :
       /\ (pc[t] = "idle" /\ pc'[t] = "ac_parse" /\ loc'[t].text = "")
            => UNCHANGED <<trustCerts, globalCertPool, pools>>
       /\ (pc[t] = "ac_parse" /\ pc'[t] # "ac_parse" /\ loc[t].text = "")
            => /\ status' = "running"
               /\ pc'[t] = "idle"
               /\ ret'[t].op = "AddCertificate"
               /\ ret'[t].err = "certificate is empty"
               /\ UNCHANGED <<trustCerts, globalCertPool, pools>>
               /\ mutex' = NoThread]_vars

\* C14's case: AddCertificate("") has returned its error in a state with a
\* custom certificate in the list and in the pool
C14_Witness ==
  \E t \in Threads :
    /\ pc[t] = "idle" /\ ret[t].op = "AddCertificate" /\ ret[t].arg = ""
    /\ ret[t].err = "certificate is empty"
    /\ trustCerts # <<>>
    /\ globalCertPool # NilPool
    /\ Range(trustCerts) \subseteq pools[globalCertPool]
    /\ mutex = NoThread

\* C12: AddCertificateKeyPair, called with the pool initialised, on a bundle
\* with entries that do not parse: the call does not abort, no unparseable
\* entry gets into trustCerts or the pool, and when it returns every
\* parseable certificate of the bundle is in trustCerts and in the pool.
C12_KeyPairSkipsUnparseableEntries ==
  [][\A t \in Threads :
       (loc[t].op = "AddCertificateKeyPair" /\ globalCertPool # NilPool)
         => /\ pc'[t] # "panicked"
            /\ NilCert \notin Range(trustCerts')
            /\ NilCert \notin pools'[globalCertPool']
            /\ pc'[t] = "idle" =>
                 \A i \in 1..Len(loc[t].bundle) :
                   BundleCert(loc[t].bundle, i) # NilCert
                     => /\ BundleCert(loc[t].bundle, i) \in Range(trustCerts')
                        /\ BundleCert(loc[t].bundle, i) \in pools'[globalCertPool']]_vars

\* the text is a fingerprint: without its ":" and the white space around it,
\* 64 hex digits
WellFormed(text) ==
  LET digits == TrimSpace(RemoveColons(text))
  IN /\ Len(digits) = 2 * FingerprintLen
     /\ \A i \in 1..Len(digits) : HexVal(digits[i]) >= 0

\* arguments of GetTLSConfig that cannot be used
MalformedFingerprint(name) == name # "" /\ ~WellFormed(FpText(name))
UnreadableFile(customCA) == customCA # "" /\ ReadFile(customCA).err
UnparseableString(customCAString) ==
  customCAString # "" /\ AppendCertsFromPEM(customCAString) = {}

\* the call returned an error and no config, and left the caller's config
\* without a callback and with the skip-validation flag it had
SetupAborted(r) ==
  /\ r.err # "nil"
  /\ r.cfg = NilConfig
  /\ r.obj.InsecureSkipVerify = r.input.InsecureSkipVerify
  /\ r.obj.VerifyPeerCertificate = r.input.VerifyPeerCertificate

\* C13 as stated: GetTLSConfig given a malformed fingerprint, an unreadable
\* CA file or an unparseable CA string (and GetSpecifiedFingerprintTLSConfig
\* given a malformed fingerprint) returns an error and no config and has set
\* neither the skip-validation flag nor a callback on the caller's config;
\* after an unreadable CA file the config's roots are not replaced.
C13_BadArgumentsAbortSetup ==
  \A t \in Threads :
    /\ (pc[t] = "idle" /\ ret[t].op = "GetTLSConfig"
          /\ \/ MalformedFingerprint(ret[t].arg)
             \/ UnreadableFile(ret[t].customCA)
             \/ UnparseableString(ret[t].customCAString))
         => /\ SetupAborted(ret[t])
            /\ UnreadableFile(ret[t].customCA)
                 => ret[t].obj.RootCAs = ret[t].input.RootCAs
    /\ (pc[t] = "idle" /\ ret[t].op = "GetSpecifiedFingerprintTLSConfig"
          /\ ~WellFormed(FpText(ret[t].arg)))
         => SetupAborted(ret[t])

\* C13 amended: the same, the unparseable CA string counting only when no
\* CA file path is given (the file takes precedence, the string is then not
\* looked at).
C13_UsedBadArgumentsAbortSetup ==
  \A t \in Threads :
    /\ (pc[t] = "idle" /\ ret[t].op = "GetTLSConfig"
          /\ \/ MalformedFingerprint(ret[t].arg)
             \/ UnreadableFile(ret[t].customCA)
             \/ ret[t].customCA = "" /\ UnparseableString(ret[t].customCAString))
         => /\ SetupAborted(ret[t])
            /\ UnreadableFile(ret[t].customCA)
                 => ret[t].obj.RootCAs = ret[t].input.RootCAs
    /\ (pc[t] = "idle" /\ ret[t].op = "GetSpecifiedFingerprintTLSConfig"
          /\ ~WellFormed(FpText(ret[t].arg)))
         => SetupAborted(ret[t])

\* C13's case: GetTLSConfig returned an error for an unreadable CA file
\* although a usable CA string came with it, on a caller's config that asked
\* to skip validation
C13_Witness ==
  \E t \in Threads :
    /\ pc[t] = "idle" /\ ret[t].op = "GetTLSConfig"
    /\ ret[t].customCA = "missing.pem" /\ ret[t].customCAString = "pem:ca2"
    /\ ret[t].input = NewConfig(TRUE)
    /\ ret[t].err = "load ca error"
    /\ ret[t].obj = ret[t].input

\* C15: a config built with no explicit fingerprint, by
\* GetGlobalFingerprintTLSConfig while the global pins are empty or by
\* GetTLSConfig of package ca, has the skip-validation flag the caller's
\* config had (false when the caller passed none).
C15_PlainBuildKeepsSkipFlag ==
  \A t \in Threads :
    /\ (pc[t] = "idle" /\ ret[t].op = "GetGlobalFingerprintTLSConfig" /\ PinList = <<>>)
         => ret[t].cfg.InsecureSkipVerify = ret[t].input.InsecureSkipVerify
    /\ (pc[t] = "idle" /\ ret[t].op = "GetTLSConfig" /\ ret[t].arg = ""
          /\ ret[t].err = "nil")
         => ret[t].cfg.InsecureSkipVerify = ret[t].input.InsecureSkipVerify

\* C15's case: GetGlobalFingerprintTLSConfig, with no pin configured, has
\* returned the config of a caller that did not ask to skip validation
C15_Witness ==
  \E t \in Threads :
    /\ pc[t] = "idle" /\ ret[t].op = "GetGlobalFingerprintTLSConfig"
    /\ PinList = <<>>
    /\ ret[t].input = NewConfig(FALSE)
    /\ ~ret[t].cfg.InsecureSkipVerify
    /\ ret[t].cfg.VerifyPeerCertificate.kind = "verifyPeerCertificateAndFingerprints"

\* the 32 bytes a fingerprint text stands for, whatever its case, its colons
\* and the white space around it
DigestOf(name) ==
  CASE name \in {"x_lower", "x_upper", "x_colon", "x_blank", "x_formfeed"} ->
         Sha256("leaf_x")
    [] name = "inter_lower" -> Sha256("inter_x")
    [] OTHER -> <<>>

\* the fingerprint a call converted: the pin of the callback built, the pin
\* appended to the global list
ConvertedBy(r) ==
  IF r.op = "AddCertFingerprint" THEN PinList[Len(PinList)]
  ELSE r.cfg.VerifyPeerCertificate.pins[1]

\* C16: convertFingerprint, as its callers see it: a call that converts its
\* fingerprint argument succeeds exactly when the text, without its ":" and
\* the white space around it, is 64 hex digits, and then uses the 32 bytes
\* the digits stand for, whatever the colons and the case.
C16_ConvertFingerprintIsFormatBlind ==
  \A t \in Threads :
    (/\ pc[t] = "idle"
     /\ \/ ret[t].op \in {"AddCertFingerprint", "GetSpecifiedFingerprintTLSConfig"}
        \/ /\ ret[t].op = "GetTLSConfig" /\ ret[t].arg # ""
           /\ ret[t].customCA = "" /\ ret[t].customCAString = "")
      => /\ ret[t].err = "nil" <=> WellFormed(FpText(ret[t].arg))
         /\ ret[t].err = "nil" => ConvertedBy(ret[t]) = DigestOf(ret[t].arg)

\* C17: with getCertPool called concurrently from the start and nobody
\* adding or resetting, one pool only is ever built, every call of
\* getCertPool returns the handle of that pool, and so does every config.
C17_PoolIsBuiltOnce ==
  /\ Len(pools) <= 1
  /\ \A t \in Threads :
       pc[t] = "gt_pool" => loc[t].got # NilPool /\ loc[t].got = globalCertPool
  /\ \A cfg \in configs :
       cfg.RootCAs.kind = "global"
         => cfg.RootCAs.id # NilPool /\ cfg.RootCAs.id = globalCertPool

\* C17's case: two goroutines are back from getCertPool at the same time
\* with the same handle, and a config built before holds it too
C17_Witness ==
  /\ \A t \in Threads : pc[t] = "gt_pool" /\ loc[t].got = globalCertPool
  /\ globalCertPool # NilPool
  /\ \E cfg \in configs : cfg.RootCAs.id = globalCertPool

\* C18: a config of GetGlobalFingerprintTLSConfig follows the global pins as
\* they are at the handshake: its skip-validation flag is set as soon as a
\* pin is configured, and a peer whose chain validates for no certificate
\* but holds a certificate matching a pin (added before or after the config
\* was built) is accepted.
C18_ConfigFollowsLaterPins ==
  \A cfg \in configs :
    (/\ cfg.VerifyPeerCertificate.kind = "verifyPeerCertificateAndFingerprints"
     /\ cfg.VerifyPeerCertificate.global
     /\ Quiescent)
      => /\ PinList # <<>> => cfg.InsecureSkipVerify
         /\ \A chain \in Chains :
              (Unverifiable(chain) /\ ChainMatches(chain, PinList))
                => HandshakeVerdict(cfg, chain) = "nil"

\* where a goroutine is while it holds the mutex of package ca
CaLockedPositions ==
  {"ac_parse", "ac_write", "ac_pool", "rs_clear", "init_sys", "init_sysfail",
   "init_custom", "init_add", "init_embed", "gp_recheck", "gp_ret"}

\* C19: under concurrent AddCertificate, ResetCertificate, getCertPool and
\* AddCertFingerprint calls: a goroutine about to lock does not hold that
\* lock, a goroutine between calls holds no lock, a lock is held only by a
\* goroutine in the middle of a call that can go on, and no call ends other
\* than by returning - so that every call completes once it is scheduled.
C19_LocksAreReleasedAndCallsReturn ==
  /\ \A t \in Threads :
       /\ pc[t] = "gp_lock" => mutex # t
       /\ pc[t] = "idle" => mutex # t /\ tlsMutex # t
       /\ pc[t] \notin {"panicked", "exited"}
  /\ mutex # NoThread => pc[mutex] \in CaLockedPositions
  /\ tlsMutex # NoThread => pc[tlsMutex] = "afp_append"

====
